---- MODULE Spec2Model ----
(***************************************************************************)
(* u2f-touch-detector: one reader task (Device::process_messages) reading  *)
(* 64-byte CTAPHID reports from one HID device, reassembling messages      *)
(* (Message::read_from), decoding them (Command::try_from) and turning     *)
(* keep-alives into debounced touch events (Spec, SpecAsm, SpecReuse,      *)
(* SpecLong); the process around the tasks: main, the channel the tasks    *)
(* publish on, the socket and notification consumers (SpecSys, and         *)
(* SpecEnum from the start of main); and the device monitor that spawns    *)
(* the tasks (SpecMon).                                                    *)
(*                                                                         *)
(* Time is in milliseconds.  Bytes are integers 0..255, a report is a      *)
(* sequence of 64 bytes, the reassembly buffer a sequence of 127*64 bytes. *)
(* Rust's 0-based offsets are kept: byte offset o is element o+1.          *)
(***************************************************************************)
EXTENDS Integers, Sequences, FiniteSets, TLC

\* ------------------------------------------------------------------------
\* Program constants
\* ------------------------------------------------------------------------

FIDO_CTAPHID_MAX_RECORD_SIZE == 64

FIDO_CTAPHID_MAX_MESSAGE_SIZE == 127 * FIDO_CTAPHID_MAX_RECORD_SIZE

HYSTERESIS_DURATION == 400

\* Init.payload: [u8; FIDO_CTAPHID_MAX_RECORD_SIZE - 7]
InitPayloadLen == FIDO_CTAPHID_MAX_RECORD_SIZE - 7

\* Continuation.payload: [u8; FIDO_CTAPHID_MAX_RECORD_SIZE - 5]
ContinuationPayloadLen == FIDO_CTAPHID_MAX_RECORD_SIZE - 5

\* command::Kind constants (0x80 | code)
KEEPALIVE == 187

MSG == 131

CBOR == 144

PING == 129

\* command::Status constants
PROCESSING == 1

UPNEEDED == 2

\* Option::None for the deadline (instants are >= 0)
None == -1

\* ------------------------------------------------------------------------
\* Bounds of the model
\* ------------------------------------------------------------------------

\* The clock stops being advanced past this instant.
MaxTime == 800

\* Messages the device starts (Init reports it sends) in a touch run.
MaxTouchMsgs == 3

\* Messages the device starts in a reassembly run.
MaxAsmMsgs == 1

\* Messages the device starts in a run about the reuse of the buffer.
MaxReuseMsgs == 3

\* Messages the device starts in a run about the longest messages.
MaxLongMsgs == 1

\* How long one blocking read may take.
Delays == {0, 200, 400}

\* ------------------------------------------------------------------------
\* Byte-level helpers
\* ------------------------------------------------------------------------

\* Filler the device puts into the unused tail of a report.
Pad == 255 - 17

Zeros(n) == [i \in 1..n |-> 0]

\* The buffer [0; FIDO_CTAPHID_MAX_MESSAGE_SIZE] is kept as its prefix up to
\* the highest offset written so far; every byte past that prefix is still
\* the 0 it was created with.
Widen(buf, n) == IF Len(buf) >= n THEN buf ELSE buf \o Zeros(n - Len(buf))

\* &buffer[..n]
Slice(buf, n) == SubSeq(Widen(buf, n), 1, n)

CopyFromSlice_keep(buf, off, bytes) ==
    [i \in 1..(IF Len(buf) > off + Len(bytes) THEN Len(buf) ELSE off + Len(bytes))
        |-> IF i <= Len(buf) THEN buf[i]
            ELSE IF i > off THEN bytes[i - off] ELSE 0]

\* buffer[off..][..Len(bytes)].copy_from_slice(bytes); the caller has
\* checked that the slice is inside the buffer.
CopyFromSlice(buf, off, bytes) ==
    SubSeq(Widen(buf, off), 1, off) \o bytes
        \o SubSeq(buf, off + Len(bytes) + 1, Len(buf))

\* U16<BE>::get
U16BE(hi, lo) == hi * 256 + lo

\* ------------------------------------------------------------------------
\* packet.rs: classification of one report
\* ------------------------------------------------------------------------

classify_byte0(r) ==
    IF r[1] < 128
    THEN [tag |-> "Continuation", channel |-> SubSeq(r, 1, 4), command |-> 0,
          length |-> 0, sequence |-> r[5],
          payload |-> SubSeq(r, 6, FIDO_CTAPHID_MAX_RECORD_SIZE)]
    ELSE [tag |-> "Init", channel |-> SubSeq(r, 1, 4), command |-> r[5],
          length |-> U16BE(r[6], r[7]), sequence |-> 0,
          payload |-> SubSeq(r, 8, FIDO_CTAPHID_MAX_RECORD_SIZE)]

\* RawPacket::classify: the byte at offset 4 decides; Init and Continuation
\* are two views of the same 64 bytes.
classify(r) ==
    IF r[5] < 128
    THEN [tag |-> "Continuation", channel |-> SubSeq(r, 1, 4), command |-> 0,
          length |-> 0, sequence |-> r[5],
          payload |-> SubSeq(r, 6, FIDO_CTAPHID_MAX_RECORD_SIZE)]
    ELSE [tag |-> "Init", channel |-> SubSeq(r, 1, 4), command |-> r[5],
          length |-> U16BE(r[6], r[7]), sequence |-> 0,
          payload |-> SubSeq(r, 8, FIDO_CTAPHID_MAX_RECORD_SIZE)]

\* What a read that produced no packet leaves in lastRead.
NoPacket(tag) ==
    [tag |-> tag, channel |-> <<0, 0, 0, 0>>, command |-> 0, length |-> 0,
     sequence |-> 0, payload |-> <<>>]

\* ------------------------------------------------------------------------
\* command.rs: decoding
\* ------------------------------------------------------------------------

KeepAliveRefFrom_prefix(payload) == Len(payload) >= 1

\* KeepAlive::ref_from(payload): zerocopy's ref_from gives Some only when the
\* slice is exactly size_of::<KeepAlive>() = 1 byte long.
KeepAliveRefFrom(payload) == Len(payload) = 1

\* Command::try_from((kind, payload))
CommandTryFrom(kind, payload) ==
    IF kind = KEEPALIVE
    THEN IF KeepAliveRefFrom(payload)
         THEN [tag |-> "KeepAlive", kind |-> kind, status |-> payload[1],
               payload |-> <<>>]
         ELSE [tag |-> "Err", kind |-> kind, status |-> 0, payload |-> <<>>]
    ELSE [tag |-> "Other", kind |-> kind, status |-> 0, payload |-> payload]

NoCommand == [tag |-> "None", kind |-> 0, status |-> 0, payload |-> <<>>]

\* ------------------------------------------------------------------------
\* Results of Message::read_from as process_messages sees them
\* ------------------------------------------------------------------------

\* The read is still inside read_from, blocked on the next report.
Pending == [tag |-> "Pending", why |-> "", channel |-> <<0, 0, 0, 0>>,
            command |-> NoCommand]

NoMessage == [tag |-> "None", why |-> "", channel |-> <<0, 0, 0, 0>>,
              command |-> NoCommand]

Err(why) == [tag |-> "Err", why |-> why, channel |-> <<0, 0, 0, 0>>,
             command |-> NoCommand]

Some(ch, cmd) == [tag |-> "Some", why |-> "", channel |-> ch, command |-> cmd]

\* ------------------------------------------------------------------------
\* message.rs: the checks of Message::read_from
\* ------------------------------------------------------------------------

LengthInSpec_unchecked(length) == TRUE

\* ensure!(length <= FIDO_CTAPHID_MAX_MESSAGE_SIZE)
LengthInSpec(length) == length <= FIDO_CTAPHID_MAX_MESSAGE_SIZE

SameChannel_unchecked(expected, received) == TRUE

\* ensure!(channel == continuation.channel)
SameChannel(expected, received) == expected = received

ExpectedSequence_unchecked(expected, received) == TRUE

\* ensure!(sequence == continuation.sequence)
ExpectedSequence(expected, received) == expected = received

AdvanceOffset_init(off, n) == off + InitPayloadLen

\* offset += continuation.payload.len()
AdvanceOffset(off, n) == off + n

AdvanceSequence_wrap7(seq) == (seq + 1) % 128

\* sequence += 1 on a u8
AdvanceSequence(seq) == (seq + 1) % 256

\* ------------------------------------------------------------------------
\* device.rs: the hysteresis state machine of process_messages
\* ------------------------------------------------------------------------

\* The state process_messages keeps across reads, with the events it has
\* published on tx so far.
Touch(d, ch, ev) == [deadline |-> d, channel |-> ch, events |-> ev]

IsIdle_always(d) == TRUE

\* deadline.is_none()
IsIdle(d) == d = None

Hysteresis_none(t) == t

\* Instant::now() + HYSTERESIS_DURATION
Hysteresis(t) == t + HYSTERESIS_DURATION

DeadlineHit_any(d, t) == d # None

\* deadline.map(|d| Instant::now() >= d).unwrap_or(false)
DeadlineHit(d, t) == d # None /\ t >= d

IsResponse_msg(kind) == kind = MSG

\* kind: command::Kind::CBOR
IsResponse(kind) == kind = CBOR

OnStoredChannel_never(stored, received) == FALSE

OnStoredChannel_any(stored, received) == TRUE

\* channel == message.channel, the guard of the PROCESSING arm
OnStoredChannel(stored, received) == stored = received

OnNoMessage_keep(s, t) ==
    IF DeadlineHit(s.deadline, t)
    THEN Touch(s.deadline, s.channel, Append(s.events, FALSE))
    ELSE s

\* The None arm of the let-else: the timeout check.
OnNoMessage(s, t) ==
    IF DeadlineHit(s.deadline, t)
    THEN Touch(None, s.channel, Append(s.events, FALSE))
    ELSE s

\* match message.command { ... }
OnMessage(s, m, t) ==
    IF m.command.tag = "KeepAlive"
    THEN IF m.command.status = UPNEEDED
         THEN Touch(Hysteresis(t), m.channel,
                    IF IsIdle(s.deadline) THEN Append(s.events, TRUE)
                    ELSE s.events)
         ELSE IF /\ m.command.status = PROCESSING
                 /\ s.deadline # None
                 /\ OnStoredChannel(s.channel, m.channel)
              THEN Touch(Hysteresis(t), s.channel, s.events)
              ELSE s
    ELSE IF IsResponse(m.command.kind) /\ s.deadline # None
         THEN Touch(None, s.channel, Append(s.events, FALSE))
         ELSE s

\* ------------------------------------------------------------------------
\* The device: what it may put on the wire
\* ------------------------------------------------------------------------

\* Two CTAPHID channels; process_messages starts with Channel([0; 4]).
ChannelZero == <<0, 0, 0, 0>>

ChA == <<0, 0, 0, 1>>

ChB == <<0, 0, 0, 2>>

OtherChannel(ch) == IF ch = ChA THEN ChB ELSE ChA

\* A message the device sends: its channel, command byte, declared length
\* and payload, the payload being the bytes seed, seed+1, ... (mod 256).
Msg(ch, cmd, len, seed) ==
    [channel |-> ch, cmd |-> cmd, length |-> len, seed |-> seed]

PayloadByte(m, i) == (m.seed + i) % 256

Payload(m) == [i \in 1..m.length |-> PayloadByte(m, i - 1)]

\* Bytes [from, from + n) of the payload, padded past its end.
Chunk(m, from, n) ==
    [i \in 1..n |-> IF from + i - 1 < m.length
                    THEN PayloadByte(m, from + i - 1) ELSE Pad]

\* Continuation packets a message of this length needs.
NCont(m) ==
    IF m.length <= InitPayloadLen THEN 0
    ELSE (m.length - InitPayloadLen + ContinuationPayloadLen - 1)
            \div ContinuationPayloadLen

InitReport(m) ==
    m.channel \o <<m.cmd, m.length \div 256, m.length % 256>>
              \o Chunk(m, 0, InitPayloadLen)

\* The k-th continuation of m (k from 0), sent on channel ch as number seq.
ContinuationReport(ch, seq, m, k) ==
    ch \o <<seq>>
       \o Chunk(m, InitPayloadLen + k * ContinuationPayloadLen,
                ContinuationPayloadLen)

\* Messages of a run about touch detection: keep-alives of every status on
\* both channels, keep-alives of length 0 and 2, responses of one and of two
\* packets, and a command the state machine ignores.
TouchMsgs ==
    { Msg(ChA, KEEPALIVE, 1, UPNEEDED), Msg(ChB, KEEPALIVE, 1, UPNEEDED),
      Msg(ChA, KEEPALIVE, 1, PROCESSING), Msg(ChB, KEEPALIVE, 1, PROCESSING),
      Msg(ChA, KEEPALIVE, 1, 3), Msg(ChA, KEEPALIVE, 0, 0),
      Msg(ChA, KEEPALIVE, 2, UPNEEDED),
      Msg(ChA, CBOR, 1, 0), Msg(ChB, CBOR, 58, 7), Msg(ChA, PING, 0, 0) }

\* Declared lengths of a run about reassembly.
AsmLengths ==
    { 0, 1, 57, 58, 127 * 57, 127 * 57 + 1,
      FIDO_CTAPHID_MAX_MESSAGE_SIZE + 1, 65535 }

AsmMsgs == { Msg(ChA, PING, len, 3) : len \in AsmLengths }
               \cup { Msg(ChB, CBOR, 58, 250), Msg(ChB, KEEPALIVE, 1, UPNEEDED) }

\* Messages of a run about the reuse of the buffer: one, two and three
\* packets long, with payloads that differ at every index.
ReuseMsgs ==
    { Msg(ChA, PING, 117, 3), Msg(ChB, CBOR, 58, 250), Msg(ChB, PING, 57, 40),
      Msg(ChA, CBOR, 1, 77) }

\* Declared lengths of a run about the longest messages: the longest one
\* that 128 continuations (sequence numbers 0..127) can fill, one byte more,
\* and the longest one the length check lets through.
LongLengths ==
    { InitPayloadLen + 128 * ContinuationPayloadLen,
      InitPayloadLen + 128 * ContinuationPayloadLen + 1,
      FIDO_CTAPHID_MAX_MESSAGE_SIZE }

LongMsgs == { Msg(ChA, PING, len, 5) : len \in LongLengths }

NoMsg == Msg(ChannelZero, 0, 0, 0)

\* The device is "sending" m after its Init and k continuations, has "sent"
\* it when the latest read delivered its last packet, and is "idle" otherwise.
Idle == [state |-> "idle", msg |-> NoMsg, k |-> 0]

Sending(m, k) ==
    [state |-> IF k < NCont(m) THEN "sending" ELSE "sent", msg |-> m, k |-> k]

Junk == Msg(ChA, PING, FIDO_CTAPHID_MAX_MESSAGE_SIZE, 99)

VARIABLES
    now,        \* Instant::now(), ms
    pc,         \* "scan": read_from looks for an Init; "cont": it collects
                \* continuations; "failed": process_messages has returned Err
    buffer,     \* process_messages' buffer, reused by every read_from (see Widen)
    init,       \* channel, command, length of the Init of the message in progress
    offset,     \* read_from's offset
    sequence,   \* read_from's sequence
    deadline,   \* process_messages' deadline
    channel,    \* process_messages' channel
    events,     \* the needed flags sent on tx, in order
    result,     \* what the latest read gave process_messages
    lastRead,   \* the packet (or timeout, or error) of the latest device read
    dev,        \* the message the device is in the middle of sending
    sendable,   \* messages the device may still start
    catalogue,  \* the messages the device may send
    refresh     \* when touch was last signalled: see NoteRefresh

\* The process as a whole: main, one reader task per device, the channel the
\* tasks publish on and its two consumers.
VARIABLES
    proc,       \* "running", or "exited" once main has returned
    devices,    \* main's devices: what device_list() has still to yield
    threads,    \* main's threads: the devices in the order they were found
    tasks,      \* per device: the task's status, deadline and stored channel
    serial,     \* per device: its serial number
    ring,       \* the values the event channel still holds, oldest first
    unread,     \* per consumer: values sent since its cursor, at most
                \* BusCapacity + 1 (it has lagged)
    consumer,   \* per consumer: "off", "running", or "stopped" (loop left)
    sock,       \* socket.rs: active, the token sent for the latest event, and
                \* the last token sent so far
    notify,     \* notify.rs: active, and what was done for the latest event
    open        \* per serial: notifications shown and not closed

readerVars == <<pc, buffer, init, offset, sequence, deadline, channel, events,
                result, lastRead, dev, sendable, catalogue, refresh>>

sysVars == <<proc, devices, threads, tasks, serial, ring, unread, consumer,
             sock, notify, open>>

\* The device monitor and the reader tasks it spawns, per device path.
VARIABLES
    attached,   \* the paths the enumeration returns at this moment
    entry,      \* per path: the monitor's map has no entry ("none"), or one
                \* whose task is "unfinished" or "finished"
    running,    \* per path: reader tasks spawned for it and not finished
    spawned,    \* per path: reader tasks spawned for it so far
    stale,      \* paths whose device was detached under a running task
    ticks       \* per reconciliation so far: the paths found, those whose
                \* open failed, those a task was spawned for

monVars == <<attached, entry, running, spawned, stale, ticks>>

vars == <<now, readerVars, sysVars, monVars>>

NoInit == [channel |-> ChannelZero, command |-> 0, length |-> 0]

NoRefresh == [opened |-> None, at |-> None, by |-> 0]

\* What the device can deliver to the next read: the report, and the
\* device's state after it.
DeviceOffers ==
    IF dev.state = "sending"
    THEN LET m == dev.msg
             k == dev.k
         IN  { [report |-> ContinuationReport(m.channel, k % 128, m, k),
                dev |-> Sending(m, k + 1), sendable |-> sendable] }
             \cup
             { [report |-> r, dev |-> Idle, sendable |-> sendable] :
                 r \in { ContinuationReport(OtherChannel(m.channel), k % 128, m, k),
                         ContinuationReport(m.channel, (k + 1) % 128, m, k),
                         ContinuationReport(m.channel, (k + 127) % 128, m, k),
                         InitReport(Msg(m.channel, PING, 0, 0)),
                         InitReport(Msg(OtherChannel(m.channel), CBOR, 1, 0)) } }
    ELSE { [report |-> InitReport(m), dev |-> Sending(m, 0),
            sendable |-> sendable - 1] : m \in IF sendable > 0 THEN catalogue ELSE {} }
         \cup
         { [report |-> ContinuationReport(c[1], c[2], Junk, 0), dev |-> Idle,
            sendable |-> sendable] : c \in {<<ChA, 0>>, <<ChB, 1>>} }

\* No process around the reader: the runs of one reader task.
SysOff ==
    /\ proc = "off"
    /\ devices = <<>>
    /\ threads = <<>>
    /\ tasks = <<>>
    /\ serial = <<>>
    /\ ring = <<>>
    /\ unread = <<>>
    /\ consumer = <<>>
    /\ sock = <<>>
    /\ notify = <<>>
    /\ open = <<>>

\* No monitor: the runs of reader tasks that are already spawned.
MonOff ==
    /\ attached = {}
    /\ entry = <<>>
    /\ running = <<>>
    /\ spawned = <<>>
    /\ stale = {}
    /\ ticks = <<>>

InitCommon ==
    /\ pc = "scan"
    /\ buffer = <<>>
    /\ init = NoInit
    /\ offset = 0
    /\ sequence = 0
    /\ deadline = None
    /\ channel = ChannelZero
    /\ events = <<>>
    /\ result = Pending
    /\ lastRead = NoPacket("Start")
    /\ dev = Idle
    /\ refresh = NoRefresh

\* A run about touch detection.
Init ==
    /\ InitCommon
    /\ SysOff
    /\ MonOff
    /\ now = 0
    /\ sendable = MaxTouchMsgs
    /\ catalogue = TouchMsgs

\* A run about reassembly: long messages at one instant (time plays no part
\* in read_from).
InitAsm ==
    /\ InitCommon
    /\ SysOff
    /\ MonOff
    /\ now = MaxTime
    /\ sendable = MaxAsmMsgs
    /\ catalogue = AsmMsgs

\* A run about the reuse of the buffer: several messages, one after the
\* other, at one instant.
InitReuse ==
    /\ InitCommon
    /\ SysOff
    /\ MonOff
    /\ now = MaxTime
    /\ sendable = MaxReuseMsgs
    /\ catalogue = ReuseMsgs

\* A run about the longest messages, at one instant.
InitLong ==
    /\ InitCommon
    /\ SysOff
    /\ MonOff
    /\ now = MaxTime
    /\ sendable = MaxLongMsgs
    /\ catalogue = LongMsgs

\* The instants at which touch was signalled, told from what was read: an
\* UPNEEDED keep-alive, or a PROCESSING keep-alive on the stored channel
\* while touch is needed, refreshes; a needed=true event opens.
NoteRefresh(r, s, t) ==
    IF r.tag = "Some" /\ r.command.tag = "KeepAlive"
       /\ ( \/ r.command.status = UPNEEDED
            \/ /\ r.command.status = PROCESSING
               /\ deadline # None
               /\ r.channel = channel )
    THEN [opened |-> IF Len(s.events) > Len(events) THEN t ELSE refresh.opened,
          at |-> t, by |-> r.command.status]
    ELSE refresh

\* The reader's variables after a step.
Reader(p, b, i, o, q, s, r) ==
    /\ pc' = p
    /\ buffer' = b
    /\ init' = i
    /\ offset' = o
    /\ sequence' = q
    /\ deadline' = s.deadline
    /\ channel' = s.channel
    /\ events' = s.events
    /\ result' = r
    /\ refresh' = NoteRefresh(r, s, now')
    /\ UNCHANGED <<sysVars, monVars>>

Current == Touch(deadline, channel, events)

Fail_resync(b, why) ==
    Reader("scan", b, NoInit, 0, 0, Current, Err(why))

\* An error leaves read_from and process_messages through `?`.
Fail(b, why) == Reader("failed", b, init, offset, sequence, Current, Err(why))

\* offset >= length: read_from decodes buffer[..length]; process_messages
\* dispatches the message.
Finish(b, ch, cmd, len) ==
    LET c == CommandTryFrom(cmd, Slice(b, len))
    IN  IF c.tag = "Err"
        THEN Fail(b, "invalid keepalive")
        ELSE Reader("scan", b, NoInit, 0, 0,
                    OnMessage(Current, Some(ch, c), now'), Some(ch, c))

StartsMessage_any(p) == TRUE

\* `let Packet::Init(init) = packet else { continue }`: while read_from looks
\* for the start of a message, only an Init packet is one.
StartsMessage(p) == p.tag = "Init"

IsContinuation_any(p) == TRUE

\* `let Packet::Continuation(continuation) = packet else { bail!(..) }`: inside
\* a message, only a Continuation packet goes on with it.
IsContinuation(p) == p.tag = "Continuation"

\* One Packet::read_from that returns a packet, and everything the reader
\* does with it until its next read.
ReadPacket(dt, o) ==
    /\ pc # "failed"
    /\ now + dt <= MaxTime
    /\ now' = now + dt
    /\ dev' = o.dev
    /\ sendable' = o.sendable
    /\ UNCHANGED catalogue
    /\ LET p == classify(o.report)
       IN  /\ lastRead' = p
           /\ IF pc = "scan"
              THEN IF ~StartsMessage(p)
                   THEN Reader("scan", buffer, NoInit, 0, 0, Current, Pending)
                   ELSE IF ~LengthInSpec(p.length)
                   THEN Fail(buffer, "out of spec length")
                   ELSE LET b == CopyFromSlice(buffer, 0, p.payload)
                            i == [channel |-> p.channel, command |-> p.command,
                                  length |-> p.length]
                        IN  IF Len(p.payload) < p.length
                            THEN Reader("cont", b, i, Len(p.payload), 0,
                                        Current, Pending)
                            ELSE Finish(b, p.channel, p.command, p.length)
              ELSE IF ~IsContinuation(p)
                   THEN Fail(buffer, "new init before message completed")
                   ELSE IF ~SameChannel(init.channel, p.channel)
                   THEN Fail(buffer, "continuation for different channel")
                   ELSE IF ~ExpectedSequence(sequence, p.sequence)
                   THEN Fail(buffer, "continuation with wrong sequence")
                   ELSE IF offset + Len(p.payload) > FIDO_CTAPHID_MAX_MESSAGE_SIZE
                   THEN Fail(buffer, "panic: slice out of range")
                   ELSE LET b == CopyFromSlice(buffer, offset, p.payload)
                            off == AdvanceOffset(offset, Len(p.payload))
                        IN  IF off < init.length
                            THEN Reader("cont", b, init, off,
                                        AdvanceSequence(sequence), Current, Pending)
                            ELSE Finish(b, init.channel, init.command, init.length)

ReadFromOnTimeout_err == Err("timeout")

\* Message::read_from gives None when one report read times out.
ReadFromOnTimeout == NoMessage

\* A read that times out, while scanning or in the middle of a message:
\* read_from returns, so its offset, sequence and Init are gone and the next
\* call scans for an Init again; process_messages runs its timeout check.
ReadTimeout(dt) ==
    /\ pc # "failed"
    /\ now + dt <= MaxTime
    /\ now' = now + dt
    /\ dev' = Idle
    /\ lastRead' = NoPacket("Timeout")
    /\ UNCHANGED <<sendable, catalogue>>
    /\ IF ReadFromOnTimeout.tag = "Err"
       THEN Fail(buffer, ReadFromOnTimeout.why)
       ELSE Reader("scan", buffer, NoInit, 0, 0, OnNoMessage(Current, now'),
                   ReadFromOnTimeout)

\* device.read fails: the error leaves process_messages and the task ends.
ReadIoError ==
    /\ pc # "failed"
    /\ lastRead' = NoPacket("IoError")
    /\ dev' = Idle
    /\ UNCHANGED <<now, sendable, catalogue>>
    /\ Fail(buffer, "io")

Next ==
    \/ \E dt \in Delays : \E o \in DeviceOffers : ReadPacket(dt, o)
    \/ \E dt \in Delays : ReadTimeout(dt)
    \/ ReadIoError

Spec == Init /\ [][Next]_vars

SpecAsm == InitAsm /\ [][Next]_vars

SpecReuse == InitReuse /\ [][Next]_vars

SpecLong == InitLong /\ [][Next]_vars

\* ------------------------------------------------------------------------
\* The process: main, the reader tasks, the event channel, its consumers
\* ------------------------------------------------------------------------

\* The devices main finds.
Dev == {1, 2}

Serials == {"s1", "s2"}

\* Two devices with a serial each, or both with the same one.
SerialMaps ==
    { [d \in Dev |-> IF d = 1 THEN "s1" ELSE "s2"], [d \in Dev |-> "s1"] }

\* The orders in which device_list() may yield them.
Orders == {<<1, 2>>, <<2, 1>>}

Consumers == {"socket", "notify"}

\* The clock of a process run stops being advanced past this instant.
MaxSysTime == 400

SysDelays == {0, 400}

\* Capacity of the channel the reader tasks publish on.
BusCapacity == 1

Event(s, n) == [serial |-> s, needed |-> n]

NoEvent == Event("", FALSE)

\* What one read_from may hand a reader task of the process: an UPNEEDED
\* keep-alive, a Cbor response, or nothing (the read timed out).
SysInputs ==
    { Some(ChA, CommandTryFrom(KEEPALIVE, <<UPNEEDED>>)),
      Some(ChA, CommandTryFrom(CBOR, <<>>)),
      NoMessage }

Task(st, d, ch) == [status |-> st, deadline |-> d, channel |-> ch]

NoSock == [active |-> {}, sent |-> "", last |-> ""]

NoNotify == [active |-> {}, did |-> ""]

\* A process run: both devices found and a task spawned for each, no touch
\* needed; each consumer is configured or not.
InitSys ==
    /\ InitCommon
    /\ MonOff
    /\ now = 0
    /\ sendable = 0
    /\ catalogue = {}
    /\ proc = "running"
    /\ devices = <<>>
    /\ threads \in Orders
    /\ tasks = [d \in Dev |-> Task("running", None, ChannelZero)]
    /\ serial \in SerialMaps
    /\ ring = <<>>
    /\ unread = [c \in Consumers |-> 0]
    /\ consumer \in [Consumers -> {"off", "running"}]
    /\ sock = NoSock
    /\ notify = NoNotify
    /\ open = [s \in Serials |-> 0]

\* The receivers the channel has: a consumer's receiver is dropped when its
\* loop is left.
Receivers == {c \in Consumers : consumer[c] = "running"}

LastN(q, n) == IF Len(q) <= n THEN q ELSE SubSeq(q, Len(q) - n + 1, Len(q))

\* tx.send(v): Err when there is no receiver; else the value goes into the
\* channel, taking the place of the oldest one when the channel is full.
Send(v) ==
    IF Receivers = {}
    THEN UNCHANGED <<ring, unread>>
    ELSE /\ ring' = LastN(Append(ring, v), BusCapacity)
         /\ unread' = [c \in Consumers |->
                          IF c \in Receivers /\ unread[c] <= BusCapacity
                          THEN unread[c] + 1 ELSE unread[c]]

AfterSend_try(delivered) == delivered

\* let _ = tx.send(..): the task goes on whatever send returned.
AfterSend(delivered) == TRUE

\* One read_from of the task of device d and what process_messages does with
\* its result, up to the next read.
TaskRead(d, dt, in) ==
    /\ proc = "running"
    /\ tasks[d].status = "running"
    /\ now + dt <= MaxSysTime
    /\ now' = now + dt
    /\ LET before == Touch(tasks[d].deadline, tasks[d].channel, <<>>)
           s == IF in.tag = "None" THEN OnNoMessage(before, now')
                ELSE OnMessage(before, in, now')
           delivered == Receivers # {}
       IN  /\ tasks' = [tasks EXCEPT ![d] =
                          Task(IF s.events = <<>> \/ AfterSend(delivered)
                               THEN "running" ELSE "failed",
                               s.deadline, s.channel)]
           /\ IF s.events = <<>>
              THEN UNCHANGED <<ring, unread>>
              ELSE Send(Event(serial[d], s.events[1]))
    /\ UNCHANGED <<readerVars, monVars, proc, devices, threads, serial, consumer,
                   sock, notify, open>>

\* device.read of device d fails: process_messages returns the error and
\* the thread ends with it.
TaskIoError(d) ==
    /\ proc = "running"
    /\ tasks[d].status = "running"
    /\ tasks' = [tasks EXCEPT ![d].status = "failed"]
    /\ UNCHANGED <<now, readerVars, monVars, proc, devices, threads, serial, ring,
                   unread, consumer, sock, notify, open>>

\* A process run from the start of main: device_list() has yielded nothing
\* yet, no thread is spawned; no consumer is configured.
InitEnum ==
    /\ InitCommon
    /\ MonOff
    /\ now = 0
    /\ sendable = 0
    /\ catalogue = {}
    /\ proc = "running"
    /\ devices \in Orders
    /\ threads = <<>>
    /\ tasks = [d \in Dev |-> Task("unspawned", None, ChannelZero)]
    /\ serial \in SerialMaps
    /\ ring = <<>>
    /\ unread = [c \in Consumers |-> 0]
    /\ consumer = [c \in Consumers |-> "off"]
    /\ sock = NoSock
    /\ notify = NoNotify
    /\ open = [s \in Serials |-> 0]

\* `info.open_device(&hidapi)?` with an Err: the error returns from main, and
\* the process ends, with the threads spawned so far.
OnOpenError(d) ==
    /\ tasks' = [e \in Dev |->
                  Task(IF e = d THEN "openfailed"
                       ELSE IF tasks[e].status = "running" THEN "killed"
                       ELSE tasks[e].status, None, ChannelZero)]
    /\ proc' = "exited"

\* One turn of main's `for info in devices`: the device is opened and a
\* thread is spawned for it and pushed to threads; ok: open_device succeeds.
MainOpen(ok) ==
    /\ proc = "running"
    /\ devices # <<>>
    /\ devices' = Tail(devices)
    /\ LET d == Head(devices)
       IN  IF ok
           THEN /\ tasks' = [tasks EXCEPT ![d].status = "running"]
                /\ threads' = Append(threads, d)
                /\ UNCHANGED proc
           ELSE /\ OnOpenError(d)
                /\ UNCHANGED threads
    /\ UNCHANGED <<now, readerVars, monVars, serial, ring, unread, consumer, sock,
                   notify, open>>

\* main's join loop: it waits for the first thread of the list; a reader
\* thread only ever ends with an error, which `result?` returns from main,
\* and the process ends: the threads still running, the channel and the
\* consumers go with it (the notifications shown stay on the screen).
MainJoin ==
    /\ proc = "running"
    /\ devices = <<>>
    /\ threads # <<>>
    /\ tasks[Head(threads)].status = "failed"
    /\ proc' = "exited"
    /\ tasks' = [d \in Dev |->
                  Task(IF tasks[d].status = "running" THEN "killed"
                       ELSE tasks[d].status, None, ChannelZero)]
    /\ ring' = <<>>
    /\ unread' = [c \in Consumers |-> 0]
    /\ consumer' = [c \in Consumers |-> "off"]
    /\ sock' = NoSock
    /\ notify' = NoNotify
    /\ UNCHANGED <<now, readerVars, monVars, devices, threads, serial, open>>

\* rx.blocking_recv() of a consumer with something unread: Err(Lagged) when
\* values it had not received were overwritten, else the oldest unread value.
Lagged(c) == unread[c] > BusCapacity

Received(c) == ring[Len(ring) - unread[c] + 1]

\* The channel drops a value once every receiver has seen it.
Drained(u, live) == IF \A c \in live : u[c] = 0 THEN <<>> ELSE ring

\* while let Ok(..) = rx.blocking_recv(): an Err ends the loop, and the
\* receiver goes with it.
LoopEnds(c) ==
    /\ consumer' = [consumer EXCEPT ![c] = "stopped"]
    /\ unread' = [unread EXCEPT ![c] = 0]
    /\ ring' = Drained(unread', Receivers \ {c})

Take(c) ==
    /\ unread' = [unread EXCEPT ![c] = unread[c] - 1]
    /\ ring' = Drained(unread', Receivers)
    /\ UNCHANGED consumer

ShouldSignal_always(active) == TRUE

\* active.is_empty()
ShouldSignal(active) == active = {}

\* The body of the socket thread's loop.
SocketOn(ev) ==
    IF ev.needed
    THEN [active |-> sock.active \cup {ev.serial},
          sent |-> IF ShouldSignal(sock.active) THEN "U2F_1" ELSE "",
          last |-> IF ShouldSignal(sock.active) THEN "U2F_1" ELSE sock.last]
    ELSE LET a == sock.active \ {ev.serial}
         IN  [active |-> a,
              sent |-> IF ShouldSignal(a) THEN "U2F_0" ELSE "",
              last |-> IF ShouldSignal(a) THEN "U2F_0" ELSE sock.last]

SocketRecv ==
    /\ proc = "running"
    /\ consumer["socket"] = "running"
    /\ unread["socket"] > 0
    /\ IF Lagged("socket")
       THEN LoopEnds("socket") /\ UNCHANGED sock
       ELSE Take("socket") /\ sock' = SocketOn(Received("socket"))
    /\ UNCHANGED <<now, readerVars, monVars, proc, devices, threads, tasks, serial,
                   notify, open>>

IsVacant_always(active, s) == TRUE

\* Entry::Vacant
IsVacant(active, s) == s \notin active

\* The body of notify::run's loop; ok: notification.show() succeeds.
NotifyRecv(ok) ==
    /\ proc = "running"
    /\ consumer["notify"] = "running"
    /\ unread["notify"] > 0
    /\ IF Lagged("notify")
       THEN LoopEnds("notify") /\ UNCHANGED <<notify, open>>
       ELSE LET ev == Received("notify")
                s == ev.serial
            IN  /\ Take("notify")
                /\ IF ev.needed /\ IsVacant(notify.active, s)
                   THEN IF ok
                        THEN /\ notify' = [active |-> notify.active \cup {s},
                                           did |-> "shown"]
                             /\ open' = [open EXCEPT ![s] = @ + 1]
                        ELSE /\ notify' = [notify EXCEPT !.did = "failed"]
                             /\ UNCHANGED open
                   ELSE IF ~ev.needed /\ ~IsVacant(notify.active, s)
                   THEN /\ notify' = [active |-> notify.active \ {s},
                                      did |-> "closed"]
                        /\ open' = [open EXCEPT ![s] = @ - 1]
                   ELSE /\ notify' = [notify EXCEPT !.did = ""]
                        /\ UNCHANGED open
    /\ UNCHANGED <<now, readerVars, monVars, proc, devices, threads, tasks, serial,
                   sock>>

NextSys ==
    \/ \E d \in Dev : \E dt \in SysDelays : \E in \in SysInputs :
          TaskRead(d, dt, in)
    \/ \E d \in Dev : TaskIoError(d)
    \/ MainJoin
    \/ SocketRecv
    \/ \E ok \in BOOLEAN : NotifyRecv(ok)

SpecSys == InitSys /\ [][NextSys]_vars

NextEnum ==
    \/ \E ok \in BOOLEAN : MainOpen(ok)
    \/ \E d \in Dev : \E dt \in SysDelays : \E in \in SysInputs :
          TaskRead(d, dt, in)
    \/ \E d \in Dev : TaskIoError(d)
    \/ MainJoin

SpecEnum == InitEnum /\ [][NextEnum]_vars

\* ------------------------------------------------------------------------
\* The device monitor: periodic reconciliation of attached devices and tasks
\* ------------------------------------------------------------------------

\* Reconciliations of a monitor run.
MaxTicks == 3

InitMon ==
    /\ InitCommon
    /\ SysOff
    /\ now = 0
    /\ sendable = 0
    /\ catalogue = {}
    /\ attached \in SUBSET Dev
    /\ entry = [d \in Dev |-> "none"]
    /\ running = [d \in Dev |-> 0]
    /\ spawned = [d \in Dev |-> 0]
    /\ stale = {}
    /\ ticks = <<>>

Attach(d) ==
    /\ d \notin attached
    /\ attached' = attached \cup {d}
    /\ UNCHANGED <<now, readerVars, sysVars, entry, running, spawned, stale,
                   ticks>>

\* The device is unplugged: the reads of a task running on it fail from now.
Detach(d) ==
    /\ d \in attached
    /\ attached' = attached \ {d}
    /\ stale' = IF running[d] > 0 THEN stale \cup {d} ELSE stale
    /\ UNCHANGED <<now, readerVars, sysVars, entry, running, spawned, ticks>>

\* A reader task of path d ends: process_messages returns an error.
TaskEnds(d) ==
    /\ running[d] > 0
    /\ running' = [running EXCEPT ![d] = @ - 1]
    /\ entry' = [entry EXCEPT ![d] = IF running'[d] = 0 THEN "finished" ELSE @]
    /\ stale' = IF running'[d] = 0 THEN stale \ {d} ELSE stale
    /\ UNCHANGED <<now, readerVars, sysVars, attached, spawned, ticks>>

NeedsTask_always(e) == TRUE

\* The path is not in the map, or its recorded task has finished.
NeedsTask(e) == e \in {"none", "finished"}

\* One reconciliation; failed: the paths whose device cannot be opened. A
\* task whose device was detached has ended by now: its read fails at once,
\* the reconciliations are 5 s apart.
Tick(failed) ==
    /\ Len(ticks) < MaxTicks
    /\ stale = {}
    /\ LET spawn == {d \in attached \ failed : NeedsTask(entry[d])}
       IN  /\ entry' = [d \in Dev |->
                          IF d \in spawn THEN "unfinished"
                          ELSE IF entry[d] = "finished" THEN "none"
                          ELSE entry[d]]
           /\ running' = [d \in Dev |->
                            IF d \in spawn THEN running[d] + 1 ELSE running[d]]
           /\ spawned' = [d \in Dev |->
                            IF d \in spawn THEN spawned[d] + 1 ELSE spawned[d]]
           /\ ticks' = Append(ticks, [found |-> attached,
                                      failed |-> failed \cap attached,
                                      spawned |-> spawn])
    /\ UNCHANGED <<now, readerVars, sysVars, attached, stale>>

NextMon ==
    \/ \E d \in Dev : Attach(d)
    \/ \E d \in Dev : Detach(d)
    \/ \E d \in Dev : TaskEnds(d)
    \/ \E failed \in SUBSET Dev : Tick(failed)

SpecMon == InitMon /\ [][NextMon]_vars

\* ------------------------------------------------------------------------
\* Properties
\* ------------------------------------------------------------------------

\* The latest read handed process_messages a keep-alive of this status.
GotKeepAlive(r, status) ==
    r.tag = "Some" /\ r.command.tag = "KeepAlive" /\ r.command.status = status

\* The latest read handed process_messages a message of kind Cbor.
GotCbor(r) ==
    r.tag = "Some" /\ r.command.tag = "Other" /\ r.command.kind = CBOR

\* C1: the events one reader task publishes are a prefix of true, false,
\* true, ...: the first is needed=true and no two neighbours are equal.
C1_EventsAlternate ==
    \A i \in 1..Len(events) : events[i] = (i % 2 = 1)

C1_Witness ==
    /\ events = <<TRUE, FALSE, TRUE, FALSE>>
    /\ lastRead.tag = "Timeout"

\* C2: when idle, an UPNEEDED keep-alive publishes exactly one needed=true,
\* sets the deadline to now + 400 ms and stores the message's channel.
C2_IdleUpNeededOpens ==
    [][ (deadline = None /\ GotKeepAlive(result', UPNEEDED))
        => /\ events' = Append(events, TRUE)
           /\ deadline' = now' + 400
           /\ channel' = result'.channel ]_vars

C2_Witness ==
    /\ GotKeepAlive(result, UPNEEDED)
    /\ events = <<TRUE>>
    /\ refresh.opened = now
    /\ deadline = now + 400
    /\ channel = ChB

\* C3: while needed, an UPNEEDED keep-alive on any channel publishes
\* nothing; it sets the deadline to now + 400 ms and stores its channel.
C3_NeededUpNeededRefreshes ==
    [][ (deadline # None /\ GotKeepAlive(result', UPNEEDED))
        => /\ events' = events
           /\ deadline' = now' + 400
           /\ channel' = result'.channel ]_vars

C3_Witness ==
    /\ GotKeepAlive(result, UPNEEDED)
    /\ sendable = 0
    /\ events = <<TRUE>>
    /\ refresh.opened = 0
    /\ refresh.at = now
    /\ now = 400
    /\ deadline = 800
    /\ channel = ChB

\* C4: a needed=false that is not the answer to a Cbor message is published
\* only by a read that timed out, at an instant at least 400 ms after the
\* latest refresh (UPNEEDED, or PROCESSING on the stored channel), and it
\* clears the deadline; while touch is needed, a read that times out at such
\* an instant does publish it.
C4_TimeoutClearsAfterHysteresis ==
    [][ /\ (Len(events') > Len(events) /\ ~events'[Len(events')]
                                       /\ ~GotCbor(result'))
            => /\ lastRead'.tag = "Timeout"
               /\ events' = Append(events, FALSE)
               /\ refresh.at # None
               /\ now' >= refresh.at + 400
               /\ deadline' = None
        /\ (lastRead'.tag = "Timeout" /\ deadline # None
                                      /\ now' >= refresh.at + 400)
            => events' = Append(events, FALSE) ]_vars

\* UPNEEDED at 0, PROCESSING on the same channel at 200, then silence: the
\* clear comes with the timeout at 600.
C4_Witness ==
    /\ lastRead.tag = "Timeout"
    /\ events = <<TRUE, FALSE>>
    /\ refresh = [opened |-> 0, at |-> 200, by |-> PROCESSING]
    /\ now = 600
    /\ deadline = None

\* C5: while needed, a Cbor message on any channel publishes needed=false in
\* the step that processes it and clears the deadline.
C5_CborClearsAtOnce ==
    [][ (deadline # None /\ GotCbor(result'))
        => /\ events' = Append(events, FALSE)
           /\ deadline' = None ]_vars

\* A Cbor on the other channel, with the whole hysteresis time still left.
C5_Witness ==
    /\ GotCbor(result)
    /\ events = <<TRUE, FALSE>>
    /\ deadline = None
    /\ result.channel # channel
    /\ now = refresh.at

\* The payload lengths of the round trip.
RoundTripLengths == {0, 1, 57, 58, 127 * 57}

\* C6: once the device has sent a message of one of the round-trip lengths
\* (Init, then continuations 0, 1, 2, ... on one channel), read_from has
\* returned it: same channel and kind, payload of the declared length and
\* byte for byte the payload sent.
C6_RoundTrip ==
    (dev.state = "sent" /\ dev.msg.length \in RoundTripLengths)
    => IF dev.msg.cmd = KEEPALIVE
       THEN dev.msg.length = 1
            => result = Some(dev.msg.channel,
                             [tag |-> "KeepAlive", kind |-> KEEPALIVE,
                              status |-> PayloadByte(dev.msg, 0),
                              payload |-> <<>>])
       ELSE /\ result.tag = "Some"
            /\ result.channel = dev.msg.channel
            /\ result.command.tag = "Other"
            /\ result.command.kind = dev.msg.cmd
            /\ Len(result.command.payload) = dev.msg.length
            /\ result.command.payload = Payload(dev.msg)

C6_Witness ==
    /\ dev.state = "sent"
    /\ dev.msg.length = 127 * 57
    /\ dev.k = 122
    /\ result.tag = "Some"
    /\ Len(result.command.payload) = 127 * 57

\* C7: while a message is in progress, a Continuation on another channel
\* than the Init's ends the read with a protocol error; no message comes
\* back.
C7_ChannelMismatchAborts ==
    [][ (pc = "cont" /\ lastRead'.tag = "Continuation"
                     /\ lastRead'.channel # init.channel)
        => /\ pc' = "failed"
           /\ result' = Err("continuation for different channel") ]_vars

C7_Witness ==
    /\ pc = "failed"
    /\ result = Err("continuation for different channel")
    /\ lastRead.tag = "Continuation"
    /\ lastRead.channel # init.channel
    /\ lastRead.sequence = sequence
    /\ sequence = 3

\* Continuations consumed so far for the message in progress, told from the
\* bytes received.
Consumed == (offset - InitPayloadLen) \div ContinuationPayloadLen

\* C8: the k-th Continuation consumed for a message carries sequence number
\* k; one on the right channel with any other number ends the read with a
\* protocol error.
C8_SequenceMismatchAborts ==
    [][ (pc = "cont" /\ lastRead'.tag = "Continuation")
        => /\ (lastRead'.channel = init.channel /\ lastRead'.sequence # Consumed)
                => /\ pc' = "failed"
                   /\ result' = Err("continuation with wrong sequence")
           /\ result'.tag \in {"Pending", "Some"}
                => lastRead'.sequence = Consumed ]_vars

\* A repeated sequence number after three continuations.
C8_Witness ==
    /\ pc = "failed"
    /\ result = Err("continuation with wrong sequence")
    /\ lastRead.channel = init.channel
    /\ Consumed = 3
    /\ lastRead.sequence = 2

\* C9 as stated: an Init declaring more than 127*57 bytes is rejected.
C9_Original ==
    [][ (pc = "scan" /\ lastRead'.tag = "Init" /\ lastRead'.length > 127 * 57)
        => /\ pc' = "failed"
           /\ result' = Err("out of spec length") ]_vars

\* C9, amended: an Init declaring more than 127*64 = 8128 bytes is rejected
\* with a protocol error in the step that reads it, before any Continuation
\* is read, and no returned message has a payload longer than 127*64 bytes.
C9_OversizedInitRejected ==
    [][ /\ (pc = "scan" /\ lastRead'.tag = "Init"
                        /\ lastRead'.length > 127 * 64)
            => /\ pc' = "failed"
               /\ result' = Err("out of spec length")
        /\ result'.tag = "Some"
            => Len(result'.command.payload) <= 127 * 64 ]_vars

C9_Witness ==
    /\ pc = "failed"
    /\ result = Err("out of spec length")
    /\ lastRead.tag = "Init"
    /\ lastRead.length = 127 * 64 + 1

\* C10 as stated: a KeepAlive decodes whenever its payload has at least one
\* byte and fails exactly when the payload is empty.
C10_Original ==
    (dev.state = "sent" /\ dev.msg.cmd = KEEPALIVE)
    => IF dev.msg.length >= 1
       THEN GotKeepAlive(result, PayloadByte(dev.msg, 0))
       ELSE result = Err("invalid keepalive")

\* C10, amended: a KeepAlive decodes exactly when its payload is one byte
\* long, to the Status of that byte (1 PROCESSING, 2 UPNEEDED, anything else
\* unknown); it fails with a decode error when the payload is empty or
\* longer. Every other kind comes back as Other{kind, payload}.
C10_KeepAliveDecode ==
    dev.state = "sent"
    => IF dev.msg.cmd = KEEPALIVE
       THEN IF dev.msg.length = 1
            THEN /\ GotKeepAlive(result, PayloadByte(dev.msg, 0))
                 /\ result.channel = dev.msg.channel
            ELSE /\ result = Err("invalid keepalive")
                 /\ pc = "failed"
       ELSE /\ result.tag = "Some"
            /\ result.command =
                  [tag |-> "Other", kind |-> dev.msg.cmd, status |-> 0,
                   payload |-> Payload(dev.msg)]

C10_Witness ==
    /\ dev.state = "sent"
    /\ dev.msg = Msg(ChA, KEEPALIVE, 2, UPNEEDED)
    /\ result = Err("invalid keepalive")
    /\ pc = "failed"

C12_ErrorEndsTask ==
    [][ /\ pc # "failed"
        /\ lastRead'.tag = "IoError" => result' = Err("io")
        /\ result'.tag = "Err" => pc' = "failed" ]_vars

\* The task ended on an I/O error while touch was needed.
C12_Witness ==
    /\ pc = "failed"
    /\ result = Err("io")
    /\ lastRead.tag = "IoError"
    /\ deadline # None
    /\ events = <<TRUE>>

\* C13: an error on one device's read ends that device's task only: the
\* process keeps running and no other task is ended with it, whichever
\* device fails and in whatever order the devices were found.
C13_DeviceIsolation ==
    /\ proc = "running"
    /\ \A d \in Dev : tasks[d].status \in {"running", "failed"}

\* Path d was found (and opened) at the first reconciliation, not found at
\* the second, found (and opened) again at the third.
PresentAbsentPresent(d) ==
    /\ Len(ticks) = 3
    /\ d \in ticks[1].found \ ticks[1].failed
    /\ d \notin ticks[2].found
    /\ d \in ticks[3].found \ ticks[3].failed

C15_PublishNeverBlocks ==
    [][ \A d \in Dev :
          /\ ( /\ proc' = "running"
               /\ (tasks'[d].deadline = None) # (tasks[d].deadline = None) )
              => tasks'[d].status = "running"
          /\ (proc' = "running" /\ tasks'[d].status = "running")
              => ENABLED TaskRead(d, 0, NoMessage) ]_vars

\* needed=true was published to a channel without any receiver, and the
\* task is in its needed state.
C15_Witness ==
    /\ proc = "running"
    /\ \A c \in Consumers : consumer[c] = "off"
    /\ tasks[1].status = "running"
    /\ tasks[1].deadline = now + 400
    /\ tasks[2].deadline = None

\* C16: a consumer that has fallen behind (values it had not received were
\* overwritten) goes on consuming after its next receive.
C16_LaggingConsumerGoesOn ==
    [][ \A c \in Consumers :
          (consumer[c] = "running" /\ Lagged(c) /\ proc' = "running")
          => consumer'[c] = "running" ]_vars

\* The socket thread has taken one event off the channel.
SocketTook ==
    /\ proc' = "running"
    /\ consumer'["socket"] = "running"
    /\ unread'["socket"] = unread["socket"] - 1

NotifyTook ==
    /\ proc' = "running"
    /\ consumer'["notify"] = "running"
    /\ unread'["notify"] = unread["notify"] - 1

\* C18: no serial ever has more than one notification open; once the
\* notifier has processed a needed=true one is open for its serial (unless
\* show() failed), and once it has processed a needed=false none is.
C18_OneNotificationPerSerial ==
    [][ /\ \A s \in Serials : open'[s] <= 1
        /\ NotifyTook
            => LET ev == Received("notify")
               IN  IF ev.needed
                   THEN open'[ev.serial] = 1 \/ notify'.did = "failed"
                   ELSE open'[ev.serial] = 0 ]_vars

\* Both devices carry the serial s1 and the second still needs touch: the
\* first one's needed=false has closed the notification.
C18_Witness ==
    /\ notify.did = "closed"
    /\ open["s1"] = 0
    /\ serial[1] = serial[2]
    /\ \E d \in Dev : tasks[d].deadline # None

\* C19: while needed, a PROCESSING keep-alive on the stored channel sets the
\* deadline to now + 400 ms, publishes nothing and keeps the stored channel.
C19_ProcessingRefreshes ==
    [][ (deadline # None /\ GotKeepAlive(result', PROCESSING)
                         /\ result'.channel = channel)
        => /\ deadline' = now' + 400
           /\ events' = events
           /\ channel' = channel ]_vars

C19_Witness ==
    /\ GotKeepAlive(result, PROCESSING)
    /\ result.channel = channel
    /\ refresh = [opened |-> 0, at |-> 200, by |-> PROCESSING]
    /\ now = 200
    /\ deadline = 600
    /\ events = <<TRUE>>

\* The messages process_messages ignores: a PROCESSING keep-alive while idle
\* or on another channel than the stored one, a keep-alive of unknown
\* status, a Cbor while idle, any command other than KeepAlive and Cbor.
Ignored(r) ==
    /\ r.tag = "Some"
    /\ \/ GotKeepAlive(r, PROCESSING) /\ (deadline = None \/ r.channel # channel)
       \/ r.command.tag = "KeepAlive" /\ r.command.status \notin {PROCESSING, UPNEEDED}
       \/ GotCbor(r) /\ deadline = None
       \/ r.command.tag = "Other" /\ r.command.kind # CBOR

\* C20: an ignored message publishes nothing and leaves deadline and stored
\* channel as they were.
C20_IgnoredInputs ==
    [][ Ignored(result')
        => /\ events' = events
           /\ deadline' = deadline
           /\ channel' = channel ]_vars

\* A PROCESSING keep-alive on the other channel, 200 ms after the UPNEEDED:
\* the deadline is still the one the UPNEEDED set.
C20_Witness ==
    /\ GotKeepAlive(result, PROCESSING)
    /\ result.channel # channel
    /\ refresh = [opened |-> 0, at |-> 0, by |-> UPNEEDED]
    /\ now = 200
    /\ deadline = 400
    /\ events = <<TRUE>>

\* ------------------------------------------------------------------------
\* C21: once an Init has started a message that needs continuations, an Init
\* packet read before the declared length is reached, on the same channel or
\* on another one, ends the read with the protocol error "received new init
\* before message completed"; it is never taken as the start of a message:
\* nothing is copied, no message is returned and no event is sent.
\* ------------------------------------------------------------------------
C21_InitMidMessageAborts ==
    [][ (pc = "cont" /\ lastRead'.tag = "Init")
            => /\ pc' = "failed"
               /\ result' = Err("new init before message completed")
               /\ buffer' = buffer
               /\ init' = init
               /\ events' = events ]_vars

\* An Init on the other channel arrived inside the second continuation-length
\* message of the run and ended the read.
C21_Witness ==
    /\ pc = "failed"
    /\ result = Err("new init before message completed")
    /\ lastRead.tag = "Init"
    /\ lastRead.channel # init.channel
    /\ offset < init.length
    /\ sendable < MaxReuseMsgs - 1

\* ------------------------------------------------------------------------
\* C22: while read_from looks for the start of a message, Continuation
\* packets of any channel and sequence number are dropped: the read goes on
\* without an error, the buffer and the touch state are left as they were;
\* and an Init packet read in that position starts the message (its channel,
\* command and length are the message's; it is returned, rejected for its
\* length or its keep-alive payload, or waits for continuations).
\* ------------------------------------------------------------------------
C22_StrayContinuationsDropped ==
    [][ /\ (pc = "scan" /\ lastRead'.tag = "Continuation")
            => /\ pc' = "scan"
               /\ result' = Pending
               /\ buffer' = buffer
               /\ offset' = 0
               /\ sequence' = 0
               /\ <<deadline', channel', events'>> = <<deadline, channel, events>>
        /\ (pc = "scan" /\ lastRead'.tag = "Init")
            => \/ /\ pc' = "cont"
                  /\ init' = [channel |-> lastRead'.channel,
                              command |-> lastRead'.command,
                              length |-> lastRead'.length]
                  /\ offset' = InitPayloadLen
               \/ /\ pc' = "scan"
                  /\ result'.tag = "Some"
                  /\ result'.channel = lastRead'.channel
                  /\ result'.command.kind = lastRead'.command
                  /\ result'.command.tag = "KeepAlive"
                        \/ result'.command.payload
                             = SubSeq(lastRead'.payload, 1, lastRead'.length)
               \/ /\ pc' = "failed"
                  /\ result'.why \in {"out of spec length", "invalid keepalive"}
      ]_vars

\* A stray continuation with sequence number 1 was dropped between two
\* messages: the buffer still holds the bytes of the message before it.
C22_Witness ==
    /\ pc = "scan"
    /\ lastRead.tag = "Continuation"
    /\ lastRead.sequence = 1
    /\ result = Pending
    /\ Len(buffer) = InitPayloadLen
    /\ buffer[1] = 77
    /\ sendable = MaxReuseMsgs - 1

\* ------------------------------------------------------------------------
\* C23: RawPacket::classify looks at the byte at offset 4 only: a report is an
\* Init packet when that byte is 0x80 or more and a Continuation packet when
\* it is 0x7f or less, whatever the other 63 bytes are, and every report is
\* one of the two. Checked for each report the device may deliver next, for
\* the packet the latest read gave, and for reports with every value at
\* offset 4 and all other bytes 0, 0x7f, 0x80 or 0xff.
\* ------------------------------------------------------------------------
ProbeFills == {0, 127, 128, 255}

ClassifyProbes ==
    { [i \in 1..FIDO_CTAPHID_MAX_RECORD_SIZE |-> IF i = 5 THEN b ELSE f] :
        b \in 0..255, f \in ProbeFills }

TagByByteFour(r) == IF r[5] >= 128 THEN "Init" ELSE "Continuation"

C23_ClassifyOnByteFour ==
    /\ \A r \in ClassifyProbes \cup { o.report : o \in DeviceOffers } :
          /\ classify(r).tag = TagByByteFour(r)
          /\ classify(r).channel = SubSeq(r, 1, 4)
    /\ lastRead.tag = "Init" => lastRead.command >= 128
    /\ lastRead.tag = "Continuation" => lastRead.sequence <= 127

\* The largest byte that makes a Continuation was read as one, inside a
\* message, from a report whose other bytes are those of an Init's payload.
C23_Witness ==
    /\ lastRead.tag = "Continuation"
    /\ lastRead.sequence = 127
    /\ result = Err("continuation with wrong sequence")

\* ------------------------------------------------------------------------
\* C28: the buffer is reused by every read, and a returned message holds
\* bytes of its own packets only. With the read that returns a message of
\* declared length L, the bytes written by this call of read_from (the Init's
\* 57 at offset 0, then 59 per continuation at 57 + 59k) reach L or more, and
\* the payload handed on is, byte for byte, the one the device sent: no byte
\* that an earlier, longer message left in the buffer is in it.
\* ------------------------------------------------------------------------
C28_NoStaleBytes ==
    [][ (result'.tag = "Some" /\ lastRead'.tag \in {"Init", "Continuation"})
            => LET written == IF pc = "scan" THEN InitPayloadLen
                              ELSE offset + ContinuationPayloadLen
                   length == IF pc = "scan" THEN lastRead'.length
                             ELSE init.length
               IN  /\ written >= length
                   /\ (pc = "cont") => offset = InitPayloadLen
                                         + sequence * ContinuationPayloadLen
                   /\ dev'.state = "sent"
                   /\ dev'.msg.length = length
                   /\ Slice(buffer', length) = Payload(dev'.msg)
                   /\ result'.command
                        = CommandTryFrom(dev'.msg.cmd, Payload(dev'.msg)) ]_vars

\* The two-packet message was returned from a buffer in which the
\* three-packet message before it had left its bytes: index 116, past what
\* this read wrote, still holds the earlier message's byte.
C28_Witness ==
    /\ result.tag = "Some"
    /\ result.command.payload = Payload(Msg(ChB, CBOR, 58, 250))
    /\ Len(buffer) = InitPayloadLen + 2 * ContinuationPayloadLen
    /\ buffer[117] = PayloadByte(Msg(ChA, PING, 117, 3), 116)

\* ------------------------------------------------------------------------
\* C29: for every declared length the length check lets through and every
\* sequence of packets, a continuation is only ever copied to an offset
\* 57 + 59k with k <= 127, so the 59 bytes end inside the buffer of 127 * 64
\* bytes; the expected sequence number, a u8, is never more than 128; and a
\* message that declares more than 57 + 128 * 59 bytes is never returned:
\* once its Init is read, the read ends in an error or in a timeout.
\* ------------------------------------------------------------------------
LongestFillable == InitPayloadLen + 128 * ContinuationPayloadLen

C29_WritesAndSequenceInRange ==
    [][ /\ sequence' <= 128
        /\ Len(buffer') <= FIDO_CTAPHID_MAX_MESSAGE_SIZE
        /\ result'.why # "panic: slice out of range"
        /\ (pc = "cont" /\ lastRead'.tag = "Continuation" /\ buffer' # buffer)
              => /\ sequence <= 127
                 /\ offset = InitPayloadLen + sequence * ContinuationPayloadLen
                 /\ offset + ContinuationPayloadLen
                      <= FIDO_CTAPHID_MAX_MESSAGE_SIZE
        /\ (pc = "cont" /\ init.length > LongestFillable)
              => \/ pc' = "cont" /\ init' = init /\ result' = Pending
                 \/ pc' = "failed" /\ result'.tag = "Err"
                 \/ pc' = "scan" /\ result' = NoMessage
                       /\ lastRead'.tag = "Timeout" ]_vars

\* The longest message the length check lets through has had 128
\* continuations copied: the expected sequence number is 128, which no
\* continuation can carry, and the message is still 519 bytes short.
C29_Witness ==
    /\ pc = "cont"
    /\ sequence = 128
    /\ offset = LongestFillable
    /\ init.length = FIDO_CTAPHID_MAX_MESSAGE_SIZE
    /\ Len(buffer) = LongestFillable

\* ------------------------------------------------------------------------
\* C25: liveness of the clear. Once touch is needed and no UPNEEDED
\* keep-alive, no PROCESSING keep-alive on the stored channel and no Cbor
\* arrives any more, needed=false is published after the deadline has passed,
\* also when every read returns a message (PROCESSING on another channel, a
\* keep-alive of unknown status, a command other than Cbor) and none returns
\* no-message. In such a run the clear can only come with the handling of one
\* of these messages: a read that returns one at or after the deadline
\* publishes needed=false and clears the deadline.
\* ------------------------------------------------------------------------
C25_ClearDespiteTraffic ==
    [][ (deadline # None /\ now' >= deadline /\ Ignored(result'))
            => /\ deadline' = None
               /\ events' = Append(events, FALSE) ]_vars

\* ------------------------------------------------------------------------
\* C26: no stale needed state when a task dies. If the reader task of a
\* device ends while that device is in the needed state, the consumers still
\* get a needed=false for its serial: with the step in which the task ends,
\* (serial, false) is the value sent last on the channel.
\* ------------------------------------------------------------------------
C26_ClearOnTaskDeath ==
    [][ \A d \in Dev :
          ( /\ proc' = "running"
            /\ tasks[d].status = "running"
            /\ tasks'[d].status = "failed"
            /\ tasks[d].deadline # None
            /\ Receivers # {} )
          => /\ ring' # <<>>
             /\ ring'[Len(ring')] = Event(serial[d], FALSE)
             /\ \A c \in Receivers : unread'[c] > unread[c] ]_vars

\* ------------------------------------------------------------------------
\* C27: the socket aggregator tracks the level. Whenever it has handled
\* every event sent so far, with all reader tasks alive and none of the
\* events lost to it, the last token it sent is U2F_1 if and only if at least
\* one device is in the needed state (U2F_0 or no token at all otherwise),
\* also when two devices report the same serial.
\* ------------------------------------------------------------------------
SocketUpToDate ==
    /\ proc = "running"
    /\ consumer["socket"] = "running"
    /\ unread["socket"] = 0
    /\ \A d \in Dev : tasks[d].status = "running"

C27_TokenTracksLevel ==
    SocketUpToDate
        => ( (sock.last = "U2F_1") <=> (\E d \in Dev : tasks[d].deadline # None) )

\* ------------------------------------------------------------------------
\* C24: the enumeration handles the devices independently. Every device
\* that device_list() has is handled once, with a result of its own: a reader
\* thread, or its own error. A device that cannot be opened gets an error,
\* and this neither keeps the devices after it from being handled nor ends
\* the threads of the devices before it.
\* ------------------------------------------------------------------------
C24_EnumerationIndependent ==
    /\ proc = "exited" => devices = <<>>
    /\ \A d \in Dev :
          tasks[d].status = "openfailed"
              => \A e \in Dev \ {d} :
                    tasks[e].status \in {"running", "failed", "openfailed"}

====
